---- MODULE Spec2Model ----
(***************************************************************************)
(* Model of src/sled.rs: the KeyValueStore / Batch adapter over sled::Db.  *)
(*                                                                         *)
(* A Store and every Batch made from it hold an Arc to ONE sled::Db.  The  *)
(* Db is modelled by what the adapter can observe of it:                   *)
(*   tree    the in-memory tree that get / contains_key read and that      *)
(*           set / del change at once,                                     *)
(*   log     the engine's log of applied writes, in the order applied,     *)
(*   stable  how long a prefix of the log flush() has forced to disk.      *)
(* A crash keeps the flushed prefix and an arbitrary part of the writes    *)
(* that were applied but not yet flushed.                                  *)
(***************************************************************************)
EXTENDS Integers, Sequences, FiniteSets, TLC

\* Bound of the model: how many writes the engine's log may hold.
MaxOps == 2

\* Keys and values are byte strings, taken from the tests, and the empty value.
\* Ids name the Batch handles a run may create.
Keys == { <<0, 0>>, <<1, 1>> }
Values == { <<>>, <<0, 0, 0>> }
Ids == { 1, 2 }

\* Outcomes of one call into sled: "ok" or a sled::Error.
SledErrors == { "Io" }
Outcomes == { "ok" } \cup SledErrors

VARIABLES proc, tree, log, stable, handles, nextId, born, commitIdx, res

vars == <<proc, tree, log, stable, handles, nextId, born, commitIdx, res>>

----------------------------------------------------------------------------
\* Option and Result values.
None == << "None" >>
Some(v) == << "Some", v >>
Ok(v) == << "Ok", v >>
Err(e) == << "Err", e >>
Unit == << >>

\* IVec::to_vec: a fresh Vec<u8> with the bytes of the stored value.
to_vec(v) == [i \in 1..Len(v) |-> v[i]]

\* sled::Error::to_string.
to_string(e) == IF e = "Io" THEN "IO error" ELSE "Unsupported"

\* impl From<sled::Error> for Error.
from(e) == << "DBError", to_string(e) >>

----------------------------------------------------------------------------
\* The calls the adapter makes on the Db, as functions of the tree.
EmptyTree == [x \in {} |-> <<>>]

db_get(t, k) == IF k \in DOMAIN t THEN Some(t[k]) ELSE None

db_contains_key(t, k) == k \in DOMAIN t

db_set(t, k, v) == [x \in (DOMAIN t) \cup {k} |-> IF x = k THEN v ELSE t[x]]

db_del(t, k) == [x \in (DOMAIN t) \ {k} |-> t[x]]

\* A faulty exists: takes a key that holds the empty value for a missing one.
exists_nonempty(t, k) == db_contains_key(t, k) /\ Len(t[k]) > 0

\* What Store::get and Store::exists return when the engine call succeeds.
get_ok(t, k) == IF db_get(t, k) = None THEN None ELSE Some(to_vec(db_get(t, k)[2]))

exists_ok(t, k) == db_contains_key(t, k)

\* Where the last write to key k stands in the log l (0: none) and what a
\* reader is to find under k after the writes of l.
LastIdx(l, k) ==
    LET S == {i \in 1..Len(l) : l[i].key = k}
    IN IF S = {} THEN 0 ELSE CHOOSE i \in S : \A j \in S : j <= i

Expected(l, k) ==
    IF LastIdx(l, k) = 0 THEN None
    ELSE IF l[LastIdx(l, k)].op = "put" THEN Some(l[LastIdx(l, k)].val) ELSE None

\* One log entry applied to a tree, and the tree a log prefix rebuilds.
Apply(t, e) == IF e.op = "put" THEN db_set(t, e.key, e.val) ELSE db_del(t, e.key)

RECURSIVE Replay(_)
Replay(l) == IF l = <<>> THEN EmptyTree
             ELSE Apply(Replay(SubSeq(l, 1, Len(l) - 1)), l[Len(l)])

Entry(b, op, k, v) == [b |-> b, op |-> op, key |-> k, val |-> v]

Result(op, b, k, o, r) == [op |-> op, b |-> b, key |-> k, engine |-> o, ret |-> r]

----------------------------------------------------------------------------
Init ==
    /\ proc = "up"
    /\ tree = EmptyTree
    /\ log = <<>>
    /\ stable = 0
    /\ handles = {}
    /\ nextId = 1
    /\ born = [b \in Ids |-> 0]
    /\ commitIdx = [b \in Ids |-> -1]
    /\ res = Result("new", 0, <<>>, "ok", Ok("handle"))

\* A faulty new: goes on with a handle although the engine failed to open.
new_unchecked(o) ==
    /\ proc \in {"down", "panicked"}
    /\ proc' = "up"
    /\ res' = Result("new", 0, <<>>, o, Ok("handle"))
    /\ UNCHANGED <<tree, log, stable, handles, nextId, born, commitIdx>>

\* Store::new: Db::start_default(path).expect(..): a failure to open panics.
new(o) ==
    /\ proc \in {"down", "panicked"}
    /\ IF o = "ok"
         THEN /\ proc' = "up"
              /\ res' = Result("new", 0, <<>>, o, Ok("handle"))
         ELSE /\ proc' = "panicked"
              /\ res' = Result("new", 0, <<>>, o, << "panic", "Failed to open sled" >>)
    /\ UNCHANGED <<tree, log, stable, handles, nextId, born, commitIdx>>

\* Store::get.
get(k, o) ==
    /\ proc = "up"
    /\ res' = Result("get", 0, k, o, IF o = "ok" THEN Ok(get_ok(tree, k)) ELSE Err(from(o)))
    /\ UNCHANGED <<proc, tree, log, stable, handles, nextId, born, commitIdx>>

\* Store::exists.
exists(k, o) ==
    /\ proc = "up"
    /\ res' = Result("exists", 0, k, o, IF o = "ok" THEN Ok(exists_ok(tree, k)) ELSE Err(from(o)))
    /\ UNCHANGED <<proc, tree, log, stable, handles, nextId, born, commitIdx>>

\* Store::batch: a new handle on the same Db.
batch ==
    /\ proc = "up"
    /\ nextId \in Ids
    /\ handles' = handles \cup {nextId}
    /\ born' = [born EXCEPT ![nextId] = Len(log)]
    /\ nextId' = nextId + 1
    /\ res' = Result("batch", nextId, <<>>, "ok", Ok("batch"))
    /\ UNCHANGED <<proc, tree, log, stable, commitIdx>>

\* A faulty put: keeps the value a key already holds.
put_if_absent(b, k, v, o) ==
    /\ proc = "up"
    /\ b \in handles
    /\ IF o = "ok"
         THEN /\ Len(log) < MaxOps
              /\ tree' = IF k \in DOMAIN tree THEN tree ELSE db_set(tree, k, v)
              /\ log' = Append(log, Entry(b, "put", k, v))
              /\ res' = Result("put", b, k, o, Ok(Unit))
         ELSE /\ UNCHANGED <<tree, log>>
              /\ res' = Result("put", b, k, o, Err(from(o)))
    /\ UNCHANGED <<proc, stable, handles, nextId, born, commitIdx>>

\* Batch::put: self.db.set(key, value)?.
put(b, k, v, o) ==
    /\ proc = "up"
    /\ b \in handles
    /\ IF o = "ok"
         THEN /\ Len(log) < MaxOps
              /\ tree' = db_set(tree, k, v)
              /\ log' = Append(log, Entry(b, "put", k, v))
              /\ res' = Result("put", b, k, o, Ok(Unit))
         ELSE /\ UNCHANGED <<tree, log>>
              /\ res' = Result("put", b, k, o, Err(from(o)))
    /\ UNCHANGED <<proc, stable, handles, nextId, born, commitIdx>>

\* A faulty delete: reports a missing key as an error.
delete_strict(b, k, o) ==
    /\ proc = "up"
    /\ b \in handles
    /\ IF o = "ok" /\ k \in DOMAIN tree
         THEN /\ Len(log) < MaxOps
              /\ tree' = db_del(tree, k)
              /\ log' = Append(log, Entry(b, "delete", k, <<>>))
              /\ res' = Result("delete", b, k, o, Ok(Unit))
         ELSE /\ UNCHANGED <<tree, log>>
              /\ res' = Result("delete", b, k, o, Err(from("Io")))
    /\ UNCHANGED <<proc, stable, handles, nextId, born, commitIdx>>

\* Batch::delete: self.db.del(key)?.
delete(b, k, o) ==
    /\ proc = "up"
    /\ b \in handles
    /\ IF o = "ok"
         THEN /\ Len(log) < MaxOps
              /\ tree' = db_del(tree, k)
              /\ log' = Append(log, Entry(b, "delete", k, <<>>))
              /\ res' = Result("delete", b, k, o, Ok(Unit))
         ELSE /\ UNCHANGED <<tree, log>>
              /\ res' = Result("delete", b, k, o, Err(from(o)))
    /\ UNCHANGED <<proc, stable, handles, nextId, born, commitIdx>>

\* A faulty commit: drops the result of flush and reports success.
commit_swallow(b, o) ==
    /\ proc = "up"
    /\ b \in handles
    /\ handles' = handles \ {b}
    /\ IF o = "ok"
         THEN /\ stable' = Len(log)
              /\ commitIdx' = [commitIdx EXCEPT ![b] = Len(log)]
              /\ born' = [born EXCEPT ![b] = 0]
         ELSE UNCHANGED <<stable, commitIdx, born>>
    /\ res' = Result("commit", b, <<>>, o, Ok(Unit))
    /\ UNCHANGED <<proc, tree, log, nextId>>

\* Batch::commit(self): self.db.flush()?; the handle is consumed either way.
commit(b, o) ==
    /\ proc = "up"
    /\ b \in handles
    /\ handles' = handles \ {b}
    /\ IF o = "ok"
         THEN /\ stable' = Len(log)
              /\ commitIdx' = [commitIdx EXCEPT ![b] = Len(log)]
              /\ born' = [born EXCEPT ![b] = 0]
              /\ res' = Result("commit", b, <<>>, o, Ok(Unit))
         ELSE /\ UNCHANGED <<stable, commitIdx, born>>
              /\ res' = Result("commit", b, <<>>, o, Err(from(o)))
    /\ UNCHANGED <<proc, tree, log, nextId>>

\* The process dies and every handle with it.  The disk keeps the prefix of the
\* log that flush() forced out; of the writes applied since, sled may have
\* written any part n on its own, so how many survive is not determined.
Crash(n) ==
    /\ proc = "up"
    /\ n \in stable..Len(log)
    /\ proc' = "down"
    /\ log' = SubSeq(log, 1, n)
    /\ tree' = Replay(SubSeq(log, 1, n))
    /\ stable' = n
    /\ handles' = {}
    /\ born' = [b \in Ids |-> 0]
    /\ res' = Result("crash", 0, <<>>, "ok", Unit)
    /\ UNCHANGED <<nextId, commitIdx>>

Next ==
    \/ \E o \in Outcomes : new(o)
    \/ \E k \in Keys, o \in Outcomes : get(k, o)
    \/ \E k \in Keys, o \in Outcomes : exists(k, o)
    \/ batch
    \/ \E b \in Ids, k \in Keys, v \in Values, o \in Outcomes : put(b, k, v, o)
    \/ \E b \in Ids, k \in Keys, o \in Outcomes : delete(b, k, o)
    \/ \E b \in Ids, o \in Outcomes : commit(b, o)
    \/ \E n \in 0..MaxOps : Crash(n)

Spec == Init /\ [][Next]_vars

TypeOK ==
    /\ proc \in {"up", "down", "panicked"}
    /\ DOMAIN tree \subseteq Keys
    /\ Len(log) <= MaxOps
    /\ stable \in 0..Len(log)
    /\ handles \subseteq Ids
----------------------------------------------------------------------------
\* Helpers of the properties.

\* Every write in the log was issued through a batch whose commit returned Ok
\* after the write, and no batch is open.
AllCommitted ==
    /\ handles = {}
    /\ \A i \in 1..Len(log) : commitIdx[log[i].b] >= i

\* The store as it stood right after the first n writes of the log.
TreeAt(n) == Replay(SubSeq(log, 1, n))

\* Write i of the log can be seen by a reader: it is the last write to its key
\* and it changed what get returns for that key.
Visible(i) ==
    /\ LastIdx(log, log[i].key) = i
    /\ get_ok(TreeAt(i), log[i].key) # get_ok(TreeAt(i - 1), log[i].key)

\* No put of key k is in the log.
NeverInserted(k) == \A i \in 1..Len(log) : ~(log[i].op = "put" /\ log[i].key = k)

----------------------------------------------------------------------------
\* C1: last write wins. When every batch has been committed successfully, a
\* get(k) returns the value of the most recent put on k if the most recent
\* operation on k was a put, and absent if it was a delete or k was never put.
LastWriteWins ==
    (res.op = "get" /\ res.engine = "ok" /\ AllCommitted)
        => res.ret = Ok(Expected(log, res.key))

\* Two batches were committed: a put of a key, then a delete of it; get finds
\* the key absent.
LastWriteWinsWitness ==
    /\ res.op = "get" /\ res.engine = "ok" /\ AllCommitted
    /\ Len(log) = 2
    /\ log[1].op = "put" /\ log[2].op = "delete"
    /\ log[1].key = res.key /\ log[2].key = res.key
    /\ log[1].b # log[2].b
    /\ res.ret = Ok(None)

\* C2: batch operations are buffered. A put or delete of a batch leaves what
\* get and exists return for every key as it was before the operation.
BufferedUntilCommit ==
    [][ res'.op \in {"put", "delete"}
          => \A k \in Keys : /\ get_ok(tree', k) = get_ok(tree, k)
                             /\ exists_ok(tree', k) = exists_ok(tree, k) ]_vars

\* C3: a failed commit applies nothing. After commit() of a batch returned an
\* error (no other batch having written since the batch was created), get
\* returns for every key what it returned when the batch was created.
FailedCommitAppliesNothing ==
    ( /\ res.op = "commit"
      /\ res.engine # "ok"
      /\ \A i \in (born[res.b] + 1)..Len(log) : log[i].b = res.b )
        => \A k \in Keys : /\ get_ok(tree, k) = get_ok(TreeAt(born[res.b]), k)
                           /\ exists_ok(tree, k) = exists_ok(TreeAt(born[res.b]), k)

\* C4: a commit is one atomic unit for readers. When an operation of a batch
\* becomes visible, no operation of the same batch on another key was visible
\* before it: a reader never sees some of a batch's operations without the
\* others.
AtomicForReaders ==
    [][ ( /\ res'.op \in {"put", "delete"}
          /\ res'.engine = "ok"
          /\ get_ok(tree', res'.key) # get_ok(tree, res'.key) )
          => ~ \E i \in 1..Len(log) : /\ log[i].b = res'.b
                                      /\ log[i].key # res'.key
                                      /\ Visible(i) ]_vars

\* C5: exists(k) is true exactly when get(k) returns a value: false on a fresh
\* store, true after a committed put of k, false after a committed delete of k.
ExistsIffGet ==
    \A k \in Keys :
        /\ exists_ok(tree, k) = (get_ok(tree, k) # None)
        /\ (log = <<>>) => ~exists_ok(tree, k)
        /\ (AllCommitted /\ LastIdx(log, k) > 0)
             => exists_ok(tree, k) = (log[LastIdx(log, k)].op = "put")
        /\ (res.op = "exists" /\ res.engine = "ok" /\ res.key = k)
             => res.ret = Ok(get_ok(tree, k) # None)

\* exists was asked for a key that holds a committed empty value, while the
\* other key was put and then deleted.
ExistsIffGetWitness ==
    /\ res.op = "exists" /\ res.engine = "ok" /\ AllCommitted
    /\ Len(log) = 2
    /\ log[1].op = "put" /\ log[1].val = <<>> /\ log[1].key = res.key
    /\ log[2].op = "delete" /\ log[2].key # res.key
    /\ res.ret = Ok(TRUE)

\* C6: committed data survives a crash. After a crash and a reopen, for every
\* batch whose commit returned Ok and every key that no later committed batch
\* wrote, get returns what it returned right after that commit.
CommittedSurvivesCrash ==
    (res.op = "new" /\ res.engine = "ok")
        => \A c \in Ids : \A k \in Keys :
             ( /\ commitIdx[c] >= 0
               /\ ~ \E i \in (commitIdx[c] + 1)..Len(log) :
                      log[i].key = k /\ commitIdx[log[i].b] >= i )
                 => get_ok(tree, k) = get_ok(TreeAt(commitIdx[c]), k)

\* C7: boundary behaviour. On an empty store get is absent for every key; a
\* delete of a key that was never inserted returns an error only if the engine
\* call failed and leaves every key as it was, and so does the commit.
DeleteOfMissingKey ==
    /\ [](log = <<>> => \A k \in Keys : get_ok(tree, k) = None)
    /\ [][ ( /\ res'.op = "delete"
             /\ res'.engine = "ok"
             /\ NeverInserted(res'.key) )
             => /\ res'.ret = Ok(Unit)
                /\ \A k \in Keys : get_ok(tree', k) = get_ok(tree, k)
                /\ get_ok(tree', res'.key) = None ]_vars
    /\ [][ (res'.op = "commit" /\ res'.engine = "ok")
             => /\ res'.ret = Ok(Unit)
                /\ tree' = tree ]_vars

\* A batch deleted a key that was never inserted while the other key held a
\* value, and was committed.
DeleteOfMissingKeyWitness ==
    /\ res.op = "commit" /\ res.engine = "ok" /\ AllCommitted
    /\ Len(log) = 2
    /\ log[1].op = "put"
    /\ log[2].op = "delete" /\ log[2].key # log[1].key /\ log[2].b = res.b
    /\ get_ok(tree, log[2].key) = None
    /\ get_ok(tree, log[1].key) = Some(log[1].val)

\* C8 as stated: a failed open is returned to the caller as an error value.
OpenReturnsError ==
    (res.op = "new" /\ res.engine # "ok") => res.ret[1] = "Err"

\* C8 as amended: a failed open panics with "Failed to open sled" and leaves
\* no handle; an open ends in a usable handle or in that panic.
OpenPanics ==
    res.op = "new"
        => /\ (res.engine # "ok")
                => (proc = "panicked" /\ res.ret = << "panic", "Failed to open sled" >>)
           /\ (res.engine = "ok") => (proc = "up" /\ res.ret = Ok("handle"))

\* The store was reopened after a crash and the engine failed to open.
OpenPanicsWitness ==
    /\ res.op = "new" /\ res.engine # "ok"
    /\ proc = "panicked"

\* C9: a batch's operations become durable only through its own commit. When
\* batch a wrote and committed successfully, then after a crash and a reopen
\* the store holds no write that had been issued before that commit by a batch
\* that was never committed.
DurableOnlyByOwnCommit ==
    (res.op = "new" /\ res.engine = "ok")
        => \A a \in Ids :
             (\E j \in 1..Len(log) : log[j].b = a /\ commitIdx[a] >= j)
                 => \A i \in 1..Len(log) :
                      (commitIdx[a] >= i) => (commitIdx[log[i].b] >= 0)

\* C10: no engine failure is reported as success. When the engine call of get,
\* exists, put, delete or commit fails, the operation returns the engine's
\* error converted to the adapter's Error.
NoSwallowedError ==
    (res.op \in {"get", "exists", "put", "delete", "commit"} /\ res.engine # "ok")
        => res.ret = Err(from(res.engine))

\* A commit whose flush failed, with a write of the batch applied.
NoSwallowedErrorWitness ==
    /\ res.op = "commit" /\ res.engine = "Io"
    /\ \E i \in 1..Len(log) : log[i].b = res.b
====
